---- MODULE Spec2Model ----
(***************************************************************************)
(* The example programs of ch_03 (thread creation, synchronized output,    *)
(* thread identity, argument passing, return values, detached threads,     *)
(* jthread, moving threads, yielding) as one state machine.  Every program is a main *)
(* thread that runs straight-line code over thread handles, plus the units *)
(* of execution it spawns.  The variable prog says which program a         *)
(* behaviour runs.                                                         *)
(*                                                                         *)
(* Scheduling is preemptive: any enabled thread may take the next step.    *)
(* sleep_for guarantees a minimum duration only and bounds no other        *)
(* thread's progress, so a sleep is a step of the sleeping thread that     *)
(* constrains nobody else.                                                 *)
(***************************************************************************)
EXTENDS Integers, Sequences, FiniteSets, TLC

\* ------------------------------------------------------------------ bounds

\* Lines each writer of 03_cout_racefixed emits.  The source loops 100 times
\* (03_cout_racefixed.cpp:18,25); the model runs the same loop MaxLines times.
MaxLines == 3

\* rand() returns a value in 0..MaxRand (the source's RAND_MAX is larger);
\* MaxRand >= 10 makes the "% 10" of 06_return_vals wrap around.
MaxRand == 11

\* 10_yield_thread writes lines without end; of its destination the model
\* keeps the most recent MaxTail tokens (three tokens make one of its lines).
MaxTail == 6

\* ------------------------------------------------------- program constants

\* 09_move_threads.cpp:11  for (auto i = 0; i < 10; ++i)
MoveIters == 10

\* 07_daemon_threads.cpp:11  int timeout = 3;
TimeoutInit == 3

\* ------------------------------------------------------------ identities

\* std::thread::id(): the identity of a handle that owns no unit.
Empty == "empty"

\* std::this_thread::get_id() of the main thread.
MainId == "main"

\* A std::mutex that no thread has locked.
Free == "free"

\* The line terminator (std::endl, or a trailing "\n" of a literal).
EOL == "\n"

Programs ==
    {"cout_racefixed", "thread_creation", "passing_args", "return_vals",
     "daemon_threads", "jthread", "move_threads", "identify_thread",
     "yield_thread"}

\* ------------------------------------------------- instructions of main

\* A token of an output statement: a literal, or a value read when the
\* statement runs.
L(s) == [k |-> "lit", a |-> s]
GetId(h) == [k |-> "get_id", a |-> h]
IsJoinable(h) == [k |-> "joinable", a |-> h]
StrVar(v) == [k |-> "str", a |-> v]
IntVar(v) == [k |-> "int", a |-> v]
Elem(v, i) == [k |-> "elem", a |-> v, i |-> i]
ThisId == [k |-> "this_id", a |-> ""]
Endl == L(EOL)

\* An argument of a std::thread constructor: decay-copied, moved from,
\* wrapped in std::ref / std::cref (or captured by reference, or passed by
\* address), or a literal.
Copy(v) == [mode |-> "copy", var |-> v]
Mv(v) == [mode |-> "move", var |-> v]
Ref(v) == [mode |-> "ref", var |-> v]
Lit(x) == [mode |-> "lit", val |-> x]

ISpawn(h, u, f, args) == [op |-> "spawn", h |-> h, u |-> u, f |-> f, args |-> args]
IJoin(h) == [op |-> "join", h |-> h]
IJoinIf(h) == [op |-> "joinif", h |-> h]
IDetach(h) == [op |-> "detach", h |-> h]
IMove(src, dst) == [op |-> "move", src |-> src, dst |-> dst]
ICout(tok) == [op |-> "cout", tok |-> tok]
ISync(toks) == [op |-> "sync", toks |-> toks]
ISleep(v) == [op |-> "sleep", var |-> v]
IDestroy(h) == [op |-> "destroy", h |-> h]
IJDestroy(h) == [op |-> "jdestroy", h |-> h]
IReturn == [op |-> "return"]

\* 03_cout_racefixed.cpp main
CodeCout ==
    << ISpawn("t1", "u1", "writer1", <<>>),
       ISpawn("t2", "u2", "writer2", <<>>),
       IJoin("t1"),
       IJoin("t2"),
       IDestroy("t2"), IDestroy("t1"),
       IReturn >>

\* 01_thread_creation.cpp main (from the first std::thread on)
CodeCreate ==
    << ISpawn("t1", "u1", "func", <<>>),
       ISpawn("t2", "u2", "lambda_func", <<>>),
       ISpawn("t3", "u3", "embedded_lambda", <<>>),
       ISpawn("t4", "u4", "FuncObjectClass", <<>>),
       ISpawn("t5", "u5", "Obj::func", <<Ref("obj")>>),
       ISpawn("t6", "u6", "ObjStatic::static_func", <<>>),
       IJoinIf("t1"), IJoinIf("t2"), IJoinIf("t3"),
       IJoinIf("t4"), IJoinIf("t5"), IJoinIf("t6"),
       IDestroy("t6"), IDestroy("t5"), IDestroy("t4"),
       IDestroy("t3"), IDestroy("t2"), IDestroy("t1"),
       IReturn >>

\* 05_passing_args.cpp main; its last statement, printVector(vec_2), runs
\* on the main thread: one sink statement per element of the five.
CodeArgs ==
    << ICout(StrVar("str_val")), ICout(Endl),
       ISpawn("t1", "u1", "funcByValue", <<Copy("str_val"), Lit(1)>>),
       IJoin("t1"),
       ICout(StrVar("str_ref")), ICout(Endl),
       ISpawn("t2", "u2", "modifyValues", <<Ref("str_ref"), Ref("val")>>),
       IJoin("t2"),
       ICout(L("str_ref: ")), ICout(StrVar("str_ref")), ICout(L(", val_ref: ")),
       ICout(IntVar("val")), ICout(Endl),
       ICout(L("Passing by const-reference")), ICout(Endl),
       ISpawn("t3", "u3", "printVector", <<Ref("vec")>>),
       IJoin("t3"),
       ISpawn("t_move", "u4", "printVector", <<Mv("vec")>>),
       IJoin("t_move"),
       ISpawn("t", "u5", "lambda_hello", <<Ref("hello")>>),
       IJoin("t"),
       ISpawn("t6", "u6", "modifyVector", <<Ref("vec_2")>>),
       IJoin("t6"),
       ISync(<<L("Vector: ")>>),
       ISync(<<Elem("vec_2", 1), L(" ")>>),
       ISync(<<Elem("vec_2", 2), L(" ")>>),
       ISync(<<Elem("vec_2", 3), L(" ")>>),
       ISync(<<Elem("vec_2", 4), L(" ")>>),
       ISync(<<Elem("vec_2", 5), L(" ")>>),
       ISync(<<Endl>>),
       IDestroy("t6"), IDestroy("t"), IDestroy("t_move"),
       IDestroy("t3"), IDestroy("t2"), IDestroy("t1"),
       IReturn >>

\* 06_return_vals.cpp main
CodeRet ==
    << ISpawn("t", "u1", "func", <<Ref("result")>>),
       IJoin("t"),
       ISync(<<L("Result: "), IntVar("result"), Endl>>),
       ISpawn("t_lambda", "u2", "func", <<Ref("result")>>),
       IJoin("t_lambda"),
       ISync(<<L("Result: "), IntVar("result"), Endl>>),
       IDestroy("t_lambda"), IDestroy("t"),
       IReturn >>

\* 07_daemon_threads.cpp main
CodeDaemon ==
    << ISync(<<L("Main thread starting ..."), Endl>>),
       ISpawn("daemon", "u1", "daemonThread", <<>>),
       IDetach("daemon"),
       ISleep("timeout"),
       ISync(<<L("Main thread exiting ..."), Endl>>),
       IDestroy("daemon"),
       IReturn >>

\* Mutant of CodeJthread: the wrappers are destroyed in construction order.
CodeJthreadForward ==
    << ISpawn("t1", "u1", "func", <<Lit("t1")>>),
       ISync(<<L("Thread "), L("t1"), L(" being created"), Endl>>),
       ISpawn("t2", "u2", "func", <<Lit("t2")>>),
       ISync(<<L("Thread "), L("t2"), L(" being created"), Endl>>),
       ISpawn("t3", "u3", "func", <<Lit("t3")>>),
       ISync(<<L("Thread "), L("t3"), L(" being created"), Endl>>),
       ISleep(""),
       ISync(<<L("Main thread exiting..."), Endl>>),
       ISync(<<L("Thread "), L("t1"), L(" being destroyed"), Endl>>),
       IJDestroy("t1"),
       ISync(<<L("Thread "), L("t2"), L(" being destroyed"), Endl>>),
       IJDestroy("t2"),
       ISync(<<L("Thread "), L("t3"), L(" being destroyed"), Endl>>),
       IJDestroy("t3"),
       IReturn >>

\* 08_jthread.cpp main: each JthreadWrapper constructor starts its jthread
\* member and writes "being created"; each destructor writes "being
\* destroyed" and then destroys the jthread member.
CodeJthread ==
    << ISpawn("t1", "u1", "func", <<Lit("t1")>>),
       ISync(<<L("Thread "), L("t1"), L(" being created"), Endl>>),
       ISpawn("t2", "u2", "func", <<Lit("t2")>>),
       ISync(<<L("Thread "), L("t2"), L(" being created"), Endl>>),
       ISpawn("t3", "u3", "func", <<Lit("t3")>>),
       ISync(<<L("Thread "), L("t3"), L(" being created"), Endl>>),
       ISleep(""),
       ISync(<<L("Main thread exiting..."), Endl>>),
       ISync(<<L("Thread "), L("t3"), L(" being destroyed"), Endl>>),
       IJDestroy("t3"),
       ISync(<<L("Thread "), L("t2"), L(" being destroyed"), Endl>>),
       IJDestroy("t2"),
       ISync(<<L("Thread "), L("t1"), L(" being destroyed"), Endl>>),
       IJDestroy("t1"),
       IReturn >>

\* Mutant of CodeMove: main joins the handle it moved from.
CodeMoveJoinsSource ==
    << ISpawn("t1", "u1", "func", <<>>),
       ISync(<<L("T1 id: "), GetId("t1"), Endl>>),
       ISleep(""),
       IMove("t1", "t2"),
       ISync(<<L("T2 id: "), GetId("t2"), Endl>>),
       ISleep(""),
       ISync(<<L("Are threads joinable? t1="), IsJoinable("t1"),
               L("  t2="), IsJoinable("t2"), Endl>>),
       IJoin("t1"),
       IDestroy("t2"), IDestroy("t1"),
       IReturn >>

\* 09_move_threads.cpp main
CodeMove ==
    << ISpawn("t1", "u1", "func", <<>>),
       ISync(<<L("T1 id: "), GetId("t1"), Endl>>),
       ISleep(""),
       IMove("t1", "t2"),
       ISync(<<L("T2 id: "), GetId("t2"), Endl>>),
       ISleep(""),
       ISync(<<L("Are threads joinable? t1="), IsJoinable("t1"),
               L("  t2="), IsJoinable("t2"), Endl>>),
       IJoin("t2"),
       IDestroy("t2"), IDestroy("t1"),
       IReturn >>

\* 04_identify_thread.cpp main
CodeIdent ==
    << ISpawn("t", "u1", "func", <<>>),
       ICout(L("Thread[t] ID: ")), ICout(GetId("t")), ICout(Endl),
       ICout(L("Thread[main] ID: ")), ICout(ThisId), ICout(Endl),
       IJoin("t"),
       IDestroy("t"),
       IReturn >>

\* 10_yield_thread.cpp main: two jthreads, then the end of main's scope
\* destroys t2 and then t1.
CodeYield ==
    << ISpawn("t1", "u1", "work", <<Lit("t1")>>),
       ISpawn("t2", "u2", "work", <<Lit("t2")>>),
       IJDestroy("t2"),
       IJDestroy("t1"),
       IReturn >>

MainCode(p) ==
    CASE p = "cout_racefixed" -> CodeCout
      [] p = "thread_creation" -> CodeCreate
      [] p = "passing_args" -> CodeArgs
      [] p = "return_vals" -> CodeRet
      [] p = "daemon_threads" -> CodeDaemon
      [] p = "jthread" -> CodeJthread
      [] p = "move_threads" -> CodeMove
      [] p = "identify_thread" -> CodeIdent
      [] p = "yield_thread" -> CodeYield

\* ----------------------------------------------------------------- state

VARIABLES
    prog,     \* the program this behaviour runs
    pcMain,   \* index of main's next instruction in MainCode(prog)
    status,   \* the process: "running", "exited" (main returned), "terminated"
    handle,   \* handle name -> the unit it owns, or Empty
    stop,     \* handle name -> whether a stop was requested through it
    upc,      \* unit -> its position in its callable ("unborn" .. "done")
    life,     \* unit -> "unborn", "joinable", "joined" or "detached"
    out,      \* the tokens written to standard output, in order
    buf,      \* unit -> the private buffer of its current osyncstream
    mem,      \* the caller's storage: main's locals and the file's globals
    loc       \* unit -> its own storage: bound arguments, loop counters

vars == <<prog, pcMain, status, handle, stop, upc, life, out, buf, mem, loc>>

SpawnIdx(p) == {j \in DOMAIN MainCode(p) : MainCode(p)[j].op = "spawn"}
UnitsOf(p) == {MainCode(p)[j].u : j \in SpawnIdx(p)}
UnitFn(p, u) == MainCode(p)[CHOOSE j \in SpawnIdx(p) : MainCode(p)[j].u = u].f
HandlesOf(p) ==
    {MainCode(p)[j].h : j \in SpawnIdx(p)}
        \cup {MainCode(p)[j].dst :
                j \in {i \in DOMAIN MainCode(p) : MainCode(p)[i].op = "move"}}

\* The objects main declares and the file-scope variables, with their
\* initializers.  A std::string is the sequence of the pieces appended to it.
MemInit(p) ==
    CASE p = "thread_creation" -> [v \in {"obj"} |-> <<"Obj">>]
      [] p = "passing_args" ->
            [v \in {"str_val", "str_ref", "val", "vec", "hello", "vec_2"} |->
                CASE v = "str_val" -> <<"Passing by value">>
                  [] v = "str_ref" -> <<"Passing by reference">>
                  [] v = "val" -> 1
                  [] v = "vec" -> <<1, 2, 3, 4, 5>>
                  [] v = "hello" -> <<"Hello">>
                  [] v = "vec_2" -> <<1, 2, 3, 4, 5>>]
      [] p = "return_vals" -> [v \in {"result"} |-> 0]
      [] p = "daemon_threads" ->
            [v \in {"timeout", "main_sleep"} |->
                IF v = "timeout" THEN TimeoutInit ELSE 0]
      [] p = "yield_thread" ->
            [v \in {"val", "mtx"} |-> IF v = "val" THEN 0 ELSE Free]
      [] OTHER -> [v \in {} |-> 0]

InitOf(p) ==
    /\ prog = p
    /\ pcMain = 1
    /\ status = "running"
    /\ handle = [h \in HandlesOf(p) |-> Empty]
    /\ stop = [h \in HandlesOf(p) |-> FALSE]
    /\ upc = [u \in UnitsOf(p) |-> "unborn"]
    /\ life = [u \in UnitsOf(p) |-> "unborn"]
    /\ out = <<>>
    /\ buf = [u \in UnitsOf(p) |-> <<>>]
    /\ mem = MemInit(p)
    /\ loc = [u \in UnitsOf(p) |-> [args |-> <<>>, i |-> 0, k |-> 0]]

Init == \E p \in Programs : InitOf(p)

\* ------------------------------------------------------- handle operations

\* std::thread::joinable()
Joinable(hs, h) == hs[h] # Empty

\* std::thread's constructor: the handle owns the new unit.
Attach(hs, h, u) == [hs EXCEPT ![h] = u]

\* Mutant of Release: the handle keeps its unit.
ReleaseKeeps(hs, h) == hs

\* join() and detach() leave the handle owning nothing.
Release(hs, h) == [hs EXCEPT ![h] = Empty]

\* Mutants of Transfer: a move that copies, and a move that drops the unit.
TransferCopies(hs, src, dst) == [hs EXCEPT ![dst] = hs[src]]
TransferDrops(hs, src, dst) == [hs EXCEPT ![src] = Empty]

\* std::thread dst = std::move(src)
Transfer(hs, src, dst) == [hs EXCEPT ![dst] = hs[src], ![src] = Empty]

\* ---------------------------------------------------- argument binding

\* Mutant of Bind: an alias-marked argument is copied like any other.
BindCopiesAll(m, a) ==
    IF a.mode = "lit" THEN [ref |-> FALSE, var |-> "", val |-> a.val]
    ELSE [ref |-> FALSE, var |-> "", val |-> m[a.var]]

\* What the callable's parameter is bound to: the caller's storage for an
\* alias-marked argument, the unit's own copy otherwise.
Bind(m, a) ==
    CASE a.mode = "ref" -> [ref |-> TRUE, var |-> a.var, val |-> <<>>]
      [] a.mode = "lit" -> [ref |-> FALSE, var |-> "", val |-> a.val]
      [] OTHER -> [ref |-> FALSE, var |-> "", val |-> m[a.var]]

\* The caller's storage after the arguments were bound: an object passed
\* with std::move was move-constructed from, which leaves a std::vector
\* with no elements.
AfterBind(m, args) ==
    [v \in DOMAIN m |->
        IF \E j \in DOMAIN args : args[j].mode = "move" /\ args[j].var = v
        THEN <<>>
        ELSE m[v]]

ParamVal(m, b) == IF b.ref THEN m[b.var] ELSE b.val
StoreMem(m, b, x) == IF b.ref THEN [m EXCEPT ![b.var] = x] ELSE m
StoreLoc(b, x) == IF b.ref THEN b ELSE [b EXCEPT !.val = x]

\* ------------------------------------------------------------- output

\* operator<< of a bool (no boolalpha) and of an int
BoolStr(b) == IF b THEN "1" ELSE "0"
IntStr(n) == ToString(n)

\* Mutant of SyncPut: the token is written straight to the destination, as
\* a plain std::cout << would.
UnsyncPut(b, o, tok) == [buf |-> b, out |-> Append(o, tok)]

\* One "<<" into an osyncstream: the token goes to the stream's private
\* buffer, the destination is untouched.
SyncPut(b, o, tok) == [buf |-> Append(b, tok), out |-> o]

\* The osyncstream's destructor transfers its whole buffer to the
\* destination in one atomic step.
Emit(o, b) == o \o b

\* A complete sink statement: every token is put, then the buffer is emitted.
RECURSIVE PutAll(_, _, _)
PutAll(b, o, toks) ==
    IF toks = <<>> THEN [buf |-> b, out |-> o]
    ELSE LET r == SyncPut(b, o, Head(toks))
         IN  PutAll(r.buf, r.out, Tail(toks))

SyncWrite(o, toks) ==
    LET r == PutAll(<<>>, o, toks) IN Emit(r.out, r.buf)

TokSeq(d) ==
    CASE d.k = "lit" -> <<d.a>>
      [] d.k = "get_id" -> <<handle[d.a]>>
      [] d.k = "joinable" -> <<BoolStr(Joinable(handle, d.a))>>
      [] d.k = "str" -> mem[d.a]
      [] d.k = "int" -> <<IntStr(mem[d.a])>>
      [] d.k = "elem" -> <<IntStr(mem[d.a][d.i])>>
      [] d.k = "this_id" -> <<MainId>>

RECURSIVE Render(_)
Render(ds) == IF ds = <<>> THEN <<>> ELSE TokSeq(Head(ds)) \o Render(Tail(ds))

\* ------------------------------------------------------------- main thread

Ins == MainCode(prog)[pcMain]
AtOp(o) ==
    /\ status = "running"
    /\ pcMain \in DOMAIN MainCode(prog)
    /\ Ins.op = o

\* An uncaught std::system_error, or std::terminate from ~thread.
Terminate ==
    /\ status' = "terminated"
    /\ UNCHANGED <<prog, stop, pcMain, handle, upc, life, out, buf, mem, loc>>

\* std::thread h(f, args...)
MainSpawn ==
    /\ AtOp("spawn")
    /\ handle' = Attach(handle, Ins.h, Ins.u)
    /\ upc' = [upc EXCEPT ![Ins.u] = "start"]
    /\ life' = [life EXCEPT ![Ins.u] = "joinable"]
    /\ loc' = [loc EXCEPT ![Ins.u].args =
                    [j \in DOMAIN Ins.args |-> Bind(mem, Ins.args[j])]]
    /\ mem' = AfterBind(mem, Ins.args)
    /\ pcMain' = pcMain + 1
    /\ UNCHANGED <<prog, stop, status, out, buf>>

\* Mutant of JoinUnit: the join returns without waiting for the unit.
JoinNoWait(h) ==
    /\ life' = [life EXCEPT ![handle[h]] = "joined"]
    /\ handle' = Release(handle, h)
    /\ pcMain' = pcMain + 1
    /\ UNCHANGED <<prog, stop, status, upc, out, buf, mem, loc>>

\* The effect of a join that returns: it waits for the unit to finish.
JoinUnit(h) ==
    /\ upc[handle[h]] = "done"
    /\ life' = [life EXCEPT ![handle[h]] = "joined"]
    /\ handle' = Release(handle, h)
    /\ pcMain' = pcMain + 1
    /\ UNCHANGED <<prog, stop, status, upc, out, buf, mem, loc>>

\* std::thread::join() on handle h: std::system_error, which no example
\* catches, on a handle that owns nothing.
Join(h) == IF Joinable(handle, h) THEN JoinUnit(h) ELSE Terminate

\* h.join();
MainJoin ==
    /\ AtOp("join")
    /\ Join(Ins.h)

\* Mutant of MainJoinIf: a joinable handle is detached instead of joined.
MainJoinIfDetaches ==
    /\ AtOp("joinif")
    /\ IF Joinable(handle, Ins.h)
       THEN /\ life' = [life EXCEPT ![handle[Ins.h]] = "detached"]
            /\ handle' = Release(handle, Ins.h)
            /\ pcMain' = pcMain + 1
            /\ UNCHANGED <<prog, stop, status, upc, out, buf, mem, loc>>
       ELSE /\ pcMain' = pcMain + 1
            /\ UNCHANGED <<prog, stop, status, handle, upc, life, out, buf, mem, loc>>

\* if (h.joinable()) h.join();
MainJoinIf ==
    /\ AtOp("joinif")
    /\ IF Joinable(handle, Ins.h)
       THEN JoinUnit(Ins.h)
       ELSE /\ pcMain' = pcMain + 1
            /\ UNCHANGED <<prog, stop, status, handle, upc, life, out, buf, mem, loc>>

\* Mutant of MainDetach: detach waits for the unit, as join does.
MainDetachWaits ==
    /\ AtOp("detach")
    /\ upc[handle[Ins.h]] = "done"
    /\ life' = [life EXCEPT ![handle[Ins.h]] = "detached"]
    /\ handle' = Release(handle, Ins.h)
    /\ pcMain' = pcMain + 1
    /\ UNCHANGED <<prog, stop, status, upc, out, buf, mem, loc>>

\* std::thread::detach() on handle h: returns at once; std::system_error on
\* a handle that owns nothing.
Detach(h) ==
    IF Joinable(handle, h)
    THEN /\ life' = [life EXCEPT ![handle[h]] = "detached"]
         /\ handle' = Release(handle, h)
         /\ pcMain' = pcMain + 1
         /\ UNCHANGED <<prog, stop, status, upc, out, buf, mem, loc>>
    ELSE Terminate

\* h.detach();
MainDetach ==
    /\ AtOp("detach")
    /\ Detach(Ins.h)

\* Mutant of MainMove: the move starts the callable afresh for the
\* destination handle.
MainMoveRestarts ==
    /\ AtOp("move")
    /\ handle' = Transfer(handle, Ins.src, Ins.dst)
    /\ upc' = [upc EXCEPT ![handle[Ins.src]] = "start"]
    /\ loc' = [loc EXCEPT ![handle[Ins.src]].i = 0]
    /\ pcMain' = pcMain + 1
    /\ UNCHANGED <<prog, stop, status, life, out, buf, mem>>

\* std::thread dst = std::move(src);
MainMove ==
    /\ AtOp("move")
    /\ handle' = Transfer(handle, Ins.src, Ins.dst)
    /\ pcMain' = pcMain + 1
    /\ UNCHANGED <<prog, stop, status, upc, life, out, buf, mem, loc>>

\* std::cout << tok: one write of that token to the destination.
MainCout ==
    /\ AtOp("cout")
    /\ out' = out \o TokSeq(Ins.tok)
    /\ pcMain' = pcMain + 1
    /\ UNCHANGED <<prog, stop, status, handle, upc, life, buf, mem, loc>>

\* sync_cout << ... ;  the temporary osyncstream is private to the statement.
MainSync ==
    /\ AtOp("sync")
    /\ out' = SyncWrite(out, Render(Ins.toks))
    /\ pcMain' = pcMain + 1
    /\ UNCHANGED <<prog, stop, status, handle, upc, life, buf, mem, loc>>

\* std::this_thread::sleep_for(...); 07_daemon_threads computes the duration
\* from the global timeout, which the daemon may be writing at that moment.
MainSleep ==
    /\ AtOp("sleep")
    /\ mem' = IF Ins.var = "" THEN mem
              ELSE [mem EXCEPT !["main_sleep"] = mem[Ins.var] + 1]
    /\ pcMain' = pcMain + 1
    /\ UNCHANGED <<prog, stop, status, handle, upc, life, out, buf, loc>>

\* std::thread::~thread(): std::terminate if the handle is still joinable.
MainDestroy ==
    /\ AtOp("destroy")
    /\ IF Joinable(handle, Ins.h)
       THEN Terminate
       ELSE /\ pcMain' = pcMain + 1
            /\ UNCHANGED <<prog, stop, status, handle, upc, life, out, buf, mem, loc>>

\* Mutant of MainJDestroy: the destructor lets go of the unit without joining.
MainJDestroyNoJoin ==
    /\ AtOp("jdestroy")
    /\ handle' = Release(handle, Ins.h)
    /\ pcMain' = pcMain + 1
    /\ UNCHANGED <<prog, stop, status, upc, life, out, buf, mem, loc>>

\* std::jthread::~jthread(): if the handle is still joinable, request_stop()
\* and then join().  The destructor blocks in the join, so the model takes
\* the stop request as a step of its own.
MainJDestroy ==
    /\ AtOp("jdestroy")
    /\ IF ~Joinable(handle, Ins.h)
       THEN /\ pcMain' = pcMain + 1
            /\ UNCHANGED <<prog, stop, status, handle, upc, life, out, buf, mem, loc>>
       ELSE IF ~stop[Ins.h]
            THEN /\ stop' = [stop EXCEPT ![Ins.h] = TRUE]
                 /\ UNCHANGED <<prog, pcMain, status, handle, upc, life, out,
                                buf, mem, loc>>
            ELSE JoinUnit(Ins.h)

\* main returns: the process exits, whatever its detached units are doing.
MainReturn ==
    /\ AtOp("return")
    /\ status' = "exited"
    /\ pcMain' = pcMain + 1
    /\ UNCHANGED <<prog, stop, handle, upc, life, out, buf, mem, loc>>

\* ------------------------------------------------------------------ units

\* Unit u of program p, running callable f, is at position at.
At(u, p, f, at) ==
    /\ status = "running"
    /\ prog = p
    /\ UnitFn(p, u) = f
    /\ upc[u] = at

Goto(u, at) == upc' = [upc EXCEPT ![u] = at]
Arg(u, n) == loc[u].args[n]
UnitFrame == UNCHANGED <<prog, stop, pcMain, status, handle, life>>

\* ---- 03_cout_racefixed.cpp: the two lambdas

WriterFns == {"writer1", "writer2"}
WriterLine(f) ==
    IF f = "writer1" THEN <<"1 ", "2 ", "3 ", "4 ", EOL>>
    ELSE <<"5 ", "6 ", "7 ", "8 ", EOL>>

\* for (int i = 0; i < 100; ++i)
WriterTest(u) ==
    /\ \E f \in WriterFns : At(u, "cout_racefixed", f, "start")
    /\ Goto(u, IF loc[u].i < MaxLines THEN "put" ELSE "done")
    /\ UNCHANGED <<out, buf, mem, loc>>
    /\ UnitFrame

\* one "<<" of the statement  sync_cout << "1 " << "2 " << "3 " << "4 " << std::endl
WriterPut(u) ==
    \E f \in WriterFns :
        /\ At(u, "cout_racefixed", f, "put")
        /\ LET k == loc[u].k + 1
               r == SyncPut(buf[u], out, WriterLine(f)[k])
           IN  /\ buf' = [buf EXCEPT ![u] = r.buf]
               /\ out' = r.out
               /\ loc' = [loc EXCEPT ![u].k = k]
               /\ Goto(u, IF k = Len(WriterLine(f)) THEN "emit" ELSE "put")
        /\ UNCHANGED mem
        /\ UnitFrame

\* the end of the statement destroys the osyncstream, which emits; then ++i
WriterEmit(u) ==
    /\ \E f \in WriterFns : At(u, "cout_racefixed", f, "emit")
    /\ out' = Emit(out, buf[u])
    /\ buf' = [buf EXCEPT ![u] = <<>>]
    /\ loc' = [loc EXCEPT ![u].i = @ + 1, ![u].k = 0]
    /\ Goto(u, "start")
    /\ UNCHANGED mem
    /\ UnitFrame

\* ---- 01_thread_creation.cpp: six callables, each one std::cout << literal

CreateText(f) ==
    CASE f = "func" -> "t1: Using function pointer\n\n"
      [] f = "lambda_func" -> "t2: Using a lambda function\n\n"
      [] f = "embedded_lambda" -> "t3: Using embedded lambda function\n\n"
      [] f = "FuncObjectClass" -> "t4: Using function object class\n\n"
      [] f = "Obj::func" -> "t5: Using a non-static member function\n\n"
      [] f = "ObjStatic::static_func" -> "t6: Using a static member function\n\n"

CreateRun(u) ==
    /\ status = "running" /\ prog = "thread_creation" /\ upc[u] = "start"
    /\ out' = Append(out, CreateText(UnitFn(prog, u)))
    /\ Goto(u, "done")
    /\ UNCHANGED <<buf, mem, loc>>
    /\ UnitFrame

\* ---- 05_passing_args.cpp

\* void funcByValue(const std::string& str, int val)
funcByValue(u) ==
    /\ At(u, "passing_args", "funcByValue", "start")
    /\ out' = SyncWrite(out, <<"str: ">> \o ParamVal(mem, Arg(u, 1))
                              \o <<", val: ", IntStr(ParamVal(mem, Arg(u, 2))), EOL>>)
    /\ Goto(u, "done")
    /\ UNCHANGED <<buf, mem, loc>>
    /\ UnitFrame

\* str += " (Thread)";
modifyValues_str(u) ==
    /\ At(u, "passing_args", "modifyValues", "start")
    /\ LET x == Append(ParamVal(mem, Arg(u, 1)), " (Thread)")
       IN  /\ mem' = StoreMem(mem, Arg(u, 1), x)
           /\ loc' = [loc EXCEPT ![u].args[1] = StoreLoc(@, x)]
    /\ Goto(u, "val")
    /\ UNCHANGED <<out, buf>>
    /\ UnitFrame

\* val++;
modifyValues_val(u) ==
    /\ At(u, "passing_args", "modifyValues", "val")
    /\ LET x == ParamVal(mem, Arg(u, 2)) + 1
       IN  /\ mem' = StoreMem(mem, Arg(u, 2), x)
           /\ loc' = [loc EXCEPT ![u].args[2] = StoreLoc(@, x)]
    /\ Goto(u, "done")
    /\ UNCHANGED <<out, buf>>
    /\ UnitFrame

\* sync_cout << "Vector: ";
printVector_head(u) ==
    /\ At(u, "passing_args", "printVector", "start")
    /\ out' = SyncWrite(out, <<"Vector: ">>)
    /\ Goto(u, "elems")
    /\ UNCHANGED <<buf, mem, loc>>
    /\ UnitFrame

\* for (int num: vec) { sync_cout << num << " "; }
printVector_elem(u) ==
    /\ At(u, "passing_args", "printVector", "elems")
    /\ LET vec == ParamVal(mem, Arg(u, 1))
       IN  IF loc[u].i < Len(vec)
           THEN /\ out' = SyncWrite(out, <<IntStr(vec[loc[u].i + 1]), " ">>)
                /\ loc' = [loc EXCEPT ![u].i = @ + 1]
                /\ UNCHANGED upc
           ELSE /\ Goto(u, "endl")
                /\ UNCHANGED <<out, loc>>
    /\ UNCHANGED <<buf, mem>>
    /\ UnitFrame

\* sync_cout << std::endl;
printVector_endl(u) ==
    /\ At(u, "passing_args", "printVector", "endl")
    /\ out' = SyncWrite(out, <<EOL>>)
    /\ Goto(u, "done")
    /\ UNCHANGED <<buf, mem, loc>>
    /\ UnitFrame

\* for (auto& elem : vec) { elem = elem + elem; }
modifyVector(u) ==
    /\ At(u, "passing_args", "modifyVector", "start")
    /\ LET vec == ParamVal(mem, Arg(u, 1))
           j == loc[u].i + 1
       IN  IF loc[u].i < Len(vec)
           THEN LET x == [vec EXCEPT ![j] = vec[j] + vec[j]]
                IN  /\ mem' = StoreMem(mem, Arg(u, 1), x)
                    /\ loc' = [loc EXCEPT ![u].args[1] = StoreLoc(@, x),
                                          ![u].i = j]
                    /\ UNCHANGED upc
           ELSE /\ Goto(u, "done")
                /\ UNCHANGED <<mem, loc>>
    /\ UNCHANGED <<out, buf>>
    /\ UnitFrame

\* [&] () { sync_cout << "str_lamda: " << hello << std::endl; }
lambda_hello(u) ==
    /\ At(u, "passing_args", "lambda_hello", "start")
    /\ out' = SyncWrite(out, <<"str_lamda: ">> \o ParamVal(mem, Arg(u, 1)) \o <<EOL>>)
    /\ Goto(u, "done")
    /\ UNCHANGED <<buf, mem, loc>>
    /\ UnitFrame

\* ---- 06_return_vals.cpp: void func(int& result)

\* std::this_thread::sleep_for(1s);
func_ret_sleep(u) ==
    /\ At(u, "return_vals", "func", "start")
    /\ Goto(u, "assign")
    /\ UNCHANGED <<out, buf, mem, loc>>
    /\ UnitFrame

\* result = 1 + (rand() % 10);
func_ret_assign(u) ==
    /\ At(u, "return_vals", "func", "assign")
    /\ \E r \in 0..MaxRand :
        LET x == 1 + (r % 10)
        IN  /\ mem' = StoreMem(mem, Arg(u, 1), x)
            /\ loc' = [loc EXCEPT ![u].args[1] = StoreLoc(@, x)]
    /\ Goto(u, "done")
    /\ UNCHANGED <<out, buf>>
    /\ UnitFrame

\* ---- 07_daemon_threads.cpp: void daemonThread()

daemon_starting(u) ==
    /\ At(u, "daemon_threads", "daemonThread", "start")
    /\ out' = SyncWrite(out, <<"Daemon thread starting ...", EOL>>)
    /\ Goto(u, "test")
    /\ UNCHANGED <<buf, mem, loc>>
    /\ UnitFrame

\* Mutant of daemon_test: the loop goes on while timeout is not negative.
daemon_test_inclusive(u) ==
    /\ At(u, "daemon_threads", "daemonThread", "test")
    /\ Goto(u, IF mem["timeout"] >= 0 THEN "running" ELSE "exiting")
    /\ mem' = [mem EXCEPT !["timeout"] = @ - 1]
    /\ UNCHANGED <<out, buf, loc>>
    /\ UnitFrame

\* while (timeout-- > 0)
daemon_test(u) ==
    /\ At(u, "daemon_threads", "daemonThread", "test")
    /\ Goto(u, IF mem["timeout"] > 0 THEN "running" ELSE "exiting")
    /\ mem' = [mem EXCEPT !["timeout"] = @ - 1]
    /\ UNCHANGED <<out, buf, loc>>
    /\ UnitFrame

daemon_running(u) ==
    /\ At(u, "daemon_threads", "daemonThread", "running")
    /\ out' = SyncWrite(out, <<"Daemon thread running ...", EOL>>)
    /\ Goto(u, "sleep")
    /\ UNCHANGED <<buf, mem, loc>>
    /\ UnitFrame

daemon_sleep(u) ==
    /\ At(u, "daemon_threads", "daemonThread", "sleep")
    /\ Goto(u, "test")
    /\ UNCHANGED <<out, buf, mem, loc>>
    /\ UnitFrame

daemon_exiting(u) ==
    /\ At(u, "daemon_threads", "daemonThread", "exiting")
    /\ out' = SyncWrite(out, <<"Daemon thread exiting ...", EOL>>)
    /\ Goto(u, "done")
    /\ UNCHANGED <<buf, mem, loc>>
    /\ UnitFrame

\* ---- 08_jthread.cpp: void func(const std::string& name)

func_j_starting(u) ==
    /\ At(u, "jthread", "func", "start")
    /\ out' = SyncWrite(out, <<"Thread ", ParamVal(mem, Arg(u, 1)), " starting...", EOL>>)
    /\ Goto(u, "sleep")
    /\ UNCHANGED <<buf, mem, loc>>
    /\ UnitFrame

func_j_sleep(u) ==
    /\ At(u, "jthread", "func", "sleep")
    /\ Goto(u, "finish")
    /\ UNCHANGED <<out, buf, mem, loc>>
    /\ UnitFrame

func_j_finishing(u) ==
    /\ At(u, "jthread", "func", "finish")
    /\ out' = SyncWrite(out, <<"Thread ", ParamVal(mem, Arg(u, 1)), " finishing...", EOL>>)
    /\ Goto(u, "done")
    /\ UNCHANGED <<buf, mem, loc>>
    /\ UnitFrame

\* ---- 09_move_threads.cpp: void func()

\* for (auto i = 0; i < 10; ++i)
func_m_test(u) ==
    /\ At(u, "move_threads", "func", "start")
    /\ Goto(u, IF loc[u].i < MoveIters THEN "work" ELSE "done")
    /\ UNCHANGED <<out, buf, mem, loc>>
    /\ UnitFrame

\* sync_cout << "Thread ID: " << std::this_thread::get_id() << " is working." << std::endl;
func_m_work(u) ==
    /\ At(u, "move_threads", "func", "work")
    /\ out' = SyncWrite(out, <<"Thread ID: ", u, " is working.", EOL>>)
    /\ Goto(u, "sleep")
    /\ UNCHANGED <<buf, mem, loc>>
    /\ UnitFrame

\* std::this_thread::sleep_for(500ms); ++i
func_m_sleep(u) ==
    /\ At(u, "move_threads", "func", "sleep")
    /\ loc' = [loc EXCEPT ![u].i = @ + 1]
    /\ Goto(u, "start")
    /\ UNCHANGED <<out, buf, mem>>
    /\ UnitFrame

\* ---- 04_identify_thread.cpp: void func()

\* std::this_thread::sleep_for(3s);
func_i_sleep(u) ==
    /\ At(u, "identify_thread", "func", "start")
    /\ Goto(u, "put")
    /\ UNCHANGED <<out, buf, mem, loc>>
    /\ UnitFrame

\* Mutant of func_i_put: the unit reports the identity of the thread that
\* created it.
func_i_put_creator(u) ==
    /\ At(u, "identify_thread", "func", "put")
    /\ LET line == <<"Inside Thread[t]: ", MainId, EOL>>
           k == loc[u].k + 1
       IN  /\ out' = Append(out, line[k])
           /\ loc' = [loc EXCEPT ![u].k = k]
           /\ Goto(u, IF k = Len(line) THEN "done" ELSE "put")
    /\ UNCHANGED <<buf, mem>>
    /\ UnitFrame

\* one "<<" of  std::cout << "Inside Thread[t]: " << std::this_thread::get_id() << "\n";
func_i_put(u) ==
    /\ At(u, "identify_thread", "func", "put")
    /\ LET line == <<"Inside Thread[t]: ", u, EOL>>
           k == loc[u].k + 1
       IN  /\ out' = Append(out, line[k])
           /\ loc' = [loc EXCEPT ![u].k = k]
           /\ Goto(u, IF k = Len(line) THEN "done" ELSE "put")
    /\ UNCHANGED <<buf, mem>>
    /\ UnitFrame

\* ---- 10_yield_thread.cpp: the lambda work(const std::string& name)

\* The most recent MaxTail tokens of the destination o.
Recent(o) ==
    IF Len(o) > MaxTail THEN SubSeq(o, Len(o) - MaxTail + 1, Len(o)) ELSE o

\* while (true) { bool work_to_do = rand() % 2; if (work_to_do) ... else ...
work_decide(u) ==
    /\ At(u, "yield_thread", "work", "start")
    /\ \E r \in 0..MaxRand :
        Goto(u, IF r % 2 # 0 THEN "working" ELSE "yielding")
    /\ UNCHANGED <<out, buf, mem, loc>>
    /\ UnitFrame

\* sync_cout << name << ": working\n";
work_working(u) ==
    /\ At(u, "yield_thread", "work", "working")
    /\ out' = Recent(SyncWrite(out, <<ParamVal(mem, Arg(u, 1)), ": working", EOL>>))
    /\ Goto(u, "lock")
    /\ UNCHANGED <<buf, mem, loc>>
    /\ UnitFrame

\* Mutant of work_lock: the lock is taken without waiting for it to be free.
work_lock_nowait(u) ==
    /\ At(u, "yield_thread", "work", "lock")
    /\ mem' = [mem EXCEPT !["mtx"] = u]
    /\ Goto(u, "busy")
    /\ UNCHANGED <<out, buf, loc>>
    /\ UnitFrame

\* std::lock_guard<std::mutex> lock(mtx);  blocks until mtx is free
work_lock(u) ==
    /\ At(u, "yield_thread", "work", "lock")
    /\ mem["mtx"] = Free
    /\ mem' = [mem EXCEPT !["mtx"] = u]
    /\ Goto(u, "busy")
    /\ UNCHANGED <<out, buf, loc>>
    /\ UnitFrame

\* for (auto start = steady_clock::now(), now = start; now < start + 3s; ...) { }
work_busy(u) ==
    /\ At(u, "yield_thread", "work", "busy")
    /\ Goto(u, "unlock")
    /\ UNCHANGED <<out, buf, mem, loc>>
    /\ UnitFrame

\* Mutant of work_unlock: a fair lock, handed to the worker that waits for it.
work_unlock_handoff(u) ==
    /\ At(u, "yield_thread", "work", "unlock")
    /\ LET ws == {v \in UnitsOf(prog) \ {u} : upc[v] = "lock"}
       IN  IF ws = {}
           THEN /\ mem' = [mem EXCEPT !["mtx"] = Free]
                /\ Goto(u, "start")
           ELSE LET v == CHOOSE v \in ws : TRUE
                IN  /\ mem' = [mem EXCEPT !["mtx"] = v]
                    /\ upc' = [upc EXCEPT ![u] = "start", ![v] = "busy"]
    /\ UNCHANGED <<out, buf, loc>>
    /\ UnitFrame

\* Mutant of work_unlock: the iteration ends with mtx still held.
work_unlock_keeps(u) ==
    /\ At(u, "yield_thread", "work", "unlock")
    /\ Goto(u, "start")
    /\ UNCHANGED <<out, buf, mem, loc>>
    /\ UnitFrame

\* the closing brace of the if-branch: ~lock_guard unlocks mtx
work_unlock(u) ==
    /\ At(u, "yield_thread", "work", "unlock")
    /\ mem' = [mem EXCEPT !["mtx"] = Free]
    /\ Goto(u, "start")
    /\ UNCHANGED <<out, buf, loc>>
    /\ UnitFrame

\* sync_cout << name << ": yielding\n";
work_yielding(u) ==
    /\ At(u, "yield_thread", "work", "yielding")
    /\ out' = Recent(SyncWrite(out, <<ParamVal(mem, Arg(u, 1)), ": yielding", EOL>>))
    /\ Goto(u, "yield")
    /\ UNCHANGED <<buf, mem, loc>>
    /\ UnitFrame

\* Mutant of work_yield: the worker leaves its loop after yielding.
work_yield_exits(u) ==
    /\ At(u, "yield_thread", "work", "yield")
    /\ Goto(u, "done")
    /\ UNCHANGED <<out, buf, mem, loc>>
    /\ UnitFrame

\* std::this_thread::yield();  then the next iteration
work_yield(u) ==
    /\ At(u, "yield_thread", "work", "yield")
    /\ Goto(u, "start")
    /\ UNCHANGED <<out, buf, mem, loc>>
    /\ UnitFrame

\* --------------------------------------------------------- specifications

NextCout ==
    \/ MainSpawn \/ MainJoin \/ MainDestroy \/ MainReturn
    \/ \E u \in UnitsOf(prog) : WriterTest(u) \/ WriterPut(u) \/ WriterEmit(u)

NextCreate ==
    \/ MainSpawn \/ MainJoinIf \/ MainDestroy \/ MainReturn
    \/ \E u \in UnitsOf(prog) : CreateRun(u)

NextArgs ==
    \/ MainSpawn \/ MainJoin \/ MainCout \/ MainSync \/ MainDestroy \/ MainReturn
    \/ \E u \in UnitsOf(prog) :
        \/ funcByValue(u) \/ modifyValues_str(u) \/ modifyValues_val(u)
        \/ printVector_head(u) \/ printVector_elem(u) \/ printVector_endl(u)
        \/ modifyVector(u) \/ lambda_hello(u)

NextRet ==
    \/ MainSpawn \/ MainJoin \/ MainSync \/ MainDestroy \/ MainReturn
    \/ \E u \in UnitsOf(prog) : func_ret_sleep(u) \/ func_ret_assign(u)

NextDaemon ==
    \/ MainSpawn \/ MainDetach \/ MainSleep \/ MainSync \/ MainDestroy \/ MainReturn
    \/ \E u \in UnitsOf(prog) :
        \/ daemon_starting(u) \/ daemon_test(u) \/ daemon_running(u)
        \/ daemon_sleep(u) \/ daemon_exiting(u)

NextJthread ==
    \/ MainSpawn \/ MainSync \/ MainSleep \/ MainJDestroy \/ MainReturn
    \/ \E u \in UnitsOf(prog) :
        func_j_starting(u) \/ func_j_sleep(u) \/ func_j_finishing(u)

NextMove ==
    \/ MainSpawn \/ MainSync \/ MainSleep \/ MainMove \/ MainJoin
    \/ MainDestroy \/ MainReturn
    \/ \E u \in UnitsOf(prog) : func_m_test(u) \/ func_m_work(u) \/ func_m_sleep(u)

NextIdent ==
    \/ MainSpawn \/ MainCout \/ MainJoin \/ MainDestroy \/ MainReturn
    \/ \E u \in UnitsOf(prog) : func_i_sleep(u) \/ func_i_put(u)

NextYield ==
    \/ MainSpawn \/ MainJDestroy
    \/ \E u \in UnitsOf(prog) :
        \/ work_decide(u) \/ work_working(u) \/ work_lock(u) \/ work_busy(u)
        \/ work_unlock(u) \/ work_yielding(u) \/ work_yield(u)

MainStep ==
    \/ MainSpawn \/ MainJoin \/ MainJoinIf \/ MainDetach \/ MainMove
    \/ MainCout \/ MainSync \/ MainSleep \/ MainDestroy \/ MainJDestroy
    \/ MainReturn

UnitStep(u) ==
    \/ WriterTest(u) \/ WriterPut(u) \/ WriterEmit(u)
    \/ CreateRun(u)
    \/ funcByValue(u) \/ modifyValues_str(u) \/ modifyValues_val(u)
    \/ printVector_head(u) \/ printVector_elem(u) \/ printVector_endl(u)
    \/ modifyVector(u) \/ lambda_hello(u)
    \/ func_ret_sleep(u) \/ func_ret_assign(u)
    \/ daemon_starting(u) \/ daemon_test(u) \/ daemon_running(u)
    \/ daemon_sleep(u) \/ daemon_exiting(u)
    \/ func_j_starting(u) \/ func_j_sleep(u) \/ func_j_finishing(u)
    \/ func_m_test(u) \/ func_m_work(u) \/ func_m_sleep(u)
    \/ func_i_sleep(u) \/ func_i_put(u)
    \/ work_decide(u) \/ work_working(u) \/ work_lock(u) \/ work_busy(u)
    \/ work_unlock(u) \/ work_yielding(u) \/ work_yield(u)

Next == MainStep \/ \E u \in UnitsOf(prog) : UnitStep(u)

\* Every program.
Spec == Init /\ [][Next]_vars

\* One program each.
SpecCout == InitOf("cout_racefixed") /\ [][NextCout]_vars
SpecCreate == InitOf("thread_creation") /\ [][NextCreate]_vars
SpecArgs == InitOf("passing_args") /\ [][NextArgs]_vars
SpecRet == InitOf("return_vals") /\ [][NextRet]_vars
SpecDaemon == InitOf("daemon_threads") /\ [][NextDaemon]_vars
SpecJthread == InitOf("jthread") /\ [][NextJthread]_vars
SpecMove == InitOf("move_threads") /\ [][NextMove]_vars
SpecIdent == InitOf("identify_thread") /\ [][NextIdent]_vars
SpecYield == InitOf("yield_thread") /\ [][NextYield]_vars

\* One iteration step of the worker u of 10_yield_thread.
WorkStep(u) ==
    \/ work_decide(u) \/ work_working(u) \/ work_lock(u) \/ work_busy(u)
    \/ work_unlock(u) \/ work_yielding(u) \/ work_yield(u)

\* 10_yield_thread under a scheduler that is weakly fair to each worker: a
\* worker that can take a step without interruption eventually takes one.
FairYield ==
    /\ SpecYield
    /\ \A u \in UnitsOf("yield_thread") : WF_vars(WorkStep(u))

\* ------------------------------------------- accesses to shared storage

\* A read (w = FALSE) or a write (w = TRUE) of the caller's object v.
Acc(v, w) == [var |-> v, w |-> w]

\* An access through the parameter binding b reaches the caller's object
\* when b is an alias, and the unit's own copy otherwise.
ParamAcc(b, w) == IF b.ref THEN {Acc(b.var, w)} ELSE {}

\* What the next step of unit u reads and writes in the caller's storage.
\* (Locking and unlocking mtx is synchronization, not an access; Obj::func
\* touches no member of obj.)
UnitAccess(u) ==
    LET f == UnitFn(prog, u)
        at == upc[u]
    IN  CASE prog = "passing_args" /\ f = "funcByValue" /\ at = "start" ->
                ParamAcc(Arg(u, 1), FALSE) \cup ParamAcc(Arg(u, 2), FALSE)
          [] prog = "passing_args" /\ f = "modifyValues" /\ at = "start" ->
                ParamAcc(Arg(u, 1), TRUE)
          [] prog = "passing_args" /\ f = "modifyValues" /\ at = "val" ->
                ParamAcc(Arg(u, 2), TRUE)
          [] prog = "passing_args" /\ f = "printVector" /\ at = "elems" ->
                ParamAcc(Arg(u, 1), FALSE)
          [] prog = "passing_args" /\ f = "modifyVector" /\ at = "start" ->
                ParamAcc(Arg(u, 1), TRUE)
          [] prog = "passing_args" /\ f = "lambda_hello" /\ at = "start" ->
                ParamAcc(Arg(u, 1), FALSE)
          [] prog = "return_vals" /\ at = "assign" ->
                ParamAcc(Arg(u, 1), TRUE)
          [] prog = "daemon_threads" /\ at = "test" ->
                {Acc("timeout", TRUE)}
          [] OTHER -> {}

\* The objects an output token reads.
TokAccess(d) == IF d.k \in {"str", "int", "elem"} THEN {Acc(d.a, FALSE)} ELSE {}

\* Constructing a thread reads an argument it copies and writes one it
\* moves from.
ArgAccess(a) ==
    CASE a.mode = "copy" -> {Acc(a.var, FALSE)}
      [] a.mode = "move" -> {Acc(a.var, TRUE)}
      [] OTHER -> {}

\* What main's next instruction reads and writes in its storage.
MainAccess ==
    IF status # "running" \/ pcMain \notin DOMAIN MainCode(prog) THEN {}
    ELSE CASE Ins.op = "spawn" ->
                UNION {ArgAccess(Ins.args[j]) : j \in DOMAIN Ins.args}
           [] Ins.op = "cout" -> TokAccess(Ins.tok)
           [] Ins.op = "sync" ->
                UNION {TokAccess(Ins.toks[j]) : j \in DOMAIN Ins.toks}
           [] Ins.op = "sleep" ->
                IF Ins.var = "" THEN {} ELSE {Acc(Ins.var, FALSE)}
           [] OTHER -> {}

\* Unit u was started, has not finished, and the process is alive.
Running(u) == status = "running" /\ upc[u] \notin {"unborn", "done"}

\* ------------------------------------------- writers of standard output

\* The callables that write nothing to standard output: modifyValues and
\* modifyVector of 05_passing_args, func of 06_return_vals.  All others do.
WritesOut(p, f) ==
    ~ \/ (p = "passing_args" /\ f \in {"modifyValues", "modifyVector"})
      \/ p = "return_vals"

\* main writes to standard output somewhere in its code.
MainWritesOut ==
    \E j \in DOMAIN MainCode(prog) : MainCode(prog)[j].op \in {"cout", "sync"}

\* The next step of unit u is a "<<" on plain std::cout: the callables of
\* 01_thread_creation and func of 04_identify_thread.
PlainNext(u) ==
    \/ prog = "thread_creation" /\ upc[u] = "start"
    \/ prog = "identify_thread" /\ upc[u] = "put"

\* A step that puts a token of a plain std::cout statement into the
\* destination; every other step that writes there is a sink statement.
PlainStep ==
    \/ MainCout
    \/ \E u \in UnitsOf(prog) : CreateRun(u) \/ func_i_put(u)

\* ------------------------------------------------- reading the destination

\* The destination split at its line terminators: the complete lines
\* (without terminator) and the tokens after the last terminator.
RECURSIVE Split(_, _, _)
Split(o, cur, acc) ==
    IF o = <<>> THEN [lines |-> acc, rest |-> cur]
    ELSE IF Head(o) = EOL THEN Split(Tail(o), <<>>, Append(acc, cur))
    ELSE Split(Tail(o), Append(cur, Head(o)), acc)

LinesOf(o) == Split(o, <<>>, <<>>).lines
RestOf(o) == Split(o, <<>>, <<>>).rest

\* The first position at which the tokens toks stand in o, 0 if nowhere.
Pos(o, toks) ==
    LET hits == {i \in 1..(Len(o) - Len(toks) + 1) :
                    SubSeq(o, i, i + Len(toks) - 1) = toks}
    IN  IF hits = {} THEN 0 ELSE CHOOSE i \in hits : \A j \in hits : i <= j

HasLine(o, toks) == Pos(o, toks) > 0

\* Index of main's instruction ins in program p.
IdxOf(p, ins) == CHOOSE j \in DOMAIN MainCode(p) : MainCode(p)[j] = ins

\* ---------------------------------------------------------------- claims

\* The text of a writer's line, without its terminator.
WriterBody(f) == SubSeq(WriterLine(f), 1, Len(WriterLine(f)) - 1)

\* C1 (SpecCout): the destination never holds a fragment or a mix: at every
\* moment it consists of complete lines only, each one exactly one writer's
\* line; once both writers are joined it holds N*MaxLines lines, MaxLines of
\* each writer.
C1_SinkAtomicity ==
    prog = "cout_racefixed" =>
        LET ls == LinesOf(out)
            n == Cardinality(UnitsOf(prog))
        IN  /\ RestOf(out) = <<>>
            /\ \A i \in DOMAIN ls : \E f \in WriterFns : ls[i] = WriterBody(f)
            /\ pcMain > IdxOf(prog, IJoin("t2")) =>
                /\ Len(ls) = n * MaxLines
                /\ \A f \in WriterFns :
                     Cardinality({i \in DOMAIN ls : ls[i] = WriterBody(f)}) = MaxLines

\* Both writers ran concurrently: their lines alternate in the final output,
\* and the second writer got the first line.
C1_Witness ==
    /\ prog = "cout_racefixed"
    /\ status = "exited"
    /\ Len(LinesOf(out)) >= 3
    /\ LinesOf(out)[1] = WriterBody("writer2")
    /\ LinesOf(out)[2] = WriterBody("writer1")
    /\ LinesOf(out)[3] = WriterBody("writer2")

\* C2 (SpecMove): the step  std::thread t2 = std::move(t1)  leaves t1 with
\* the empty identity and not joinable, and gives t2 the identity and the
\* joinability t1 had before the step; the program's own report says so
\* (t1=0, t2=1, and the same id printed for t1 before and t2 after).
C2_MoveTransfersOwnership ==
    /\ [][MainMove =>
            LET a == Ins.src
                b == Ins.dst
            IN  /\ handle'[a] = Empty
                /\ ~Joinable(handle', a)
                /\ handle'[b] = handle[a]
                /\ Joinable(handle', b) = Joinable(handle, a)]_vars
    /\ [](prog = "move_threads" /\ pcMain > IdxOf("move_threads", IJoin("t2")) - 1 =>
            /\ HasLine(out, <<"Are threads joinable? t1=", "0", "  t2=", "1", EOL>>)
            /\ \E u \in UnitsOf(prog) :
                /\ HasLine(out, <<"T1 id: ", u, EOL>>)
                /\ HasLine(out, <<"T2 id: ", u, EOL>>))

\* t1 has just been moved into t2 while the unit is in the middle of its loop.
C2_Witness ==
    /\ prog = "move_threads"
    /\ pcMain = IdxOf(prog, IMove("t1", "t2")) + 1
    /\ handle["t1"] = Empty
    /\ handle["t2"] = "u1"
    /\ upc["u1"] = "work"
    /\ loc["u1"].i = 4

Owners(u) == {h \in DOMAIN handle : handle[h] = u}

\* C3 (Spec, every program): a unit is owned by at most one handle, and a
\* started unit that was neither joined nor detached by exactly one; so a
\* move never leaves source and destination owning the same unit.
C3_ExclusiveOwnership ==
    \A u \in UnitsOf(prog) :
        /\ Cardinality(Owners(u)) <= 1
        /\ life[u] = "joinable" => Cardinality(Owners(u)) = 1

\* After the move of 09_move_threads the running unit has one owner, t2.
C3_Witness ==
    /\ prog = "move_threads"
    /\ life["u1"] = "joinable"
    /\ Owners("u1") = {"t2"}
    /\ upc["u1"] = "sleep"

\* The unit that main's spawn instruction puts into handle h.
UnitOfHandle(p, h) ==
    MainCode(p)[CHOOSE j \in SpawnIdx(p) : MainCode(p)[j].h = h].u

\* 01_thread_creation under the scheduler's guarantee that a thread that
\* can take a step eventually takes one.
FairCreate ==
    /\ SpecCreate
    /\ WF_vars(MainSpawn \/ MainJoinIf \/ MainDestroy \/ MainReturn)
    /\ \A u \in UnitsOf("thread_creation") : WF_vars(CreateRun(u))

\* C4 (FairCreate): for each of the six callable forms, once main is past
\* the join of a handle the unit has finished its work (its line is written)
\* and the handle is not joinable; and every spawned unit is eventually
\* joined, so each join returns.
C4_SpawnThenJoin ==
    /\ [](\A j \in DOMAIN CodeCreate :
            (CodeCreate[j].op = "joinif" /\ pcMain > j) =>
                LET h == CodeCreate[j].h
                    u == UnitOfHandle("thread_creation", h)
                IN  /\ ~Joinable(handle, h)
                    /\ upc[u] = "done"
                    /\ \E i \in DOMAIN out :
                         out[i] = CreateText(UnitFn("thread_creation", u)))
    /\ \A u \in UnitsOf("thread_creation") :
            (life[u] = "joinable") ~> (life[u] = "joined")

\* All six joins returned, and the units did not finish in spawn order.
C4_Witness ==
    /\ prog = "thread_creation"
    /\ status = "exited"
    /\ \A u \in UnitsOf(prog) : life[u] = "joined"
    /\ Len(out) = 6
    /\ out[1] = CreateText("ObjStatic::static_func")
    /\ out[6] = CreateText("func")

JFinishing(name) == <<"Thread ", name, " finishing...", EOL>>
JDestroyed(name) == <<"Thread ", name, " being destroyed", EOL>>
JExiting == <<"Main thread exiting...", EOL>>

\* C5 (SpecJthread): main has no join and no detach, and when it has
\* returned every unit has completed func and its "finishing..." line is in
\* the output.
C5_ScopeExitWaits ==
    prog = "jthread" =>
        /\ \A j \in DOMAIN CodeJthread : CodeJthread[j].op \notin {"join", "detach"}
        /\ status = "exited" =>
             \A h \in HandlesOf(prog) :
                 /\ upc[UnitOfHandle(prog, h)] = "done"
                 /\ HasLine(out, JFinishing(h))

\* main returned, and the destructor of t3 had to wait: t3's unit wrote
\* "finishing..." only after "being destroyed" was written.
C5_Witness ==
    /\ prog = "jthread"
    /\ status = "exited"
    /\ Pos(out, JDestroyed("t3")) < Pos(out, JFinishing("t3"))
    /\ Pos(out, JDestroyed("t1")) < Pos(out, JFinishing("t1"))

\* C6 (SpecJthread): the "being destroyed" lines appear in the order t3, t2,
\* t1, all after "Main thread exiting..."; the join of t2 starts only when
\* the join of t3 has returned, the join of t1 only when that of t2 has; and
\* all three lines are there when main has returned.
C6_ReverseTeardown ==
    prog = "jthread" =>
        LET e == Pos(out, JExiting)
            d1 == Pos(out, JDestroyed("t1"))
            d2 == Pos(out, JDestroyed("t2"))
            d3 == Pos(out, JDestroyed("t3"))
        IN  /\ d3 > 0 => (e > 0 /\ e < d3)
            /\ d2 > 0 => (d3 > 0 /\ d3 < d2)
            /\ d1 > 0 => (d2 > 0 /\ d2 < d1)
            /\ status = "exited" => d1 > 0
            /\ pcMain >= IdxOf(prog, IJDestroy("t2")) => life["u3"] = "joined"
            /\ pcMain >= IdxOf(prog, IJDestroy("t1")) => life["u2"] = "joined"
            /\ pcMain >= IdxOf(prog, IJDestroy("t3")) => d3 > 0

\* main is about to join t2: t3 is joined while t1 and t2 still run.
C6_Witness ==
    /\ prog = "jthread"
    /\ pcMain = IdxOf(prog, IJDestroy("t2"))
    /\ life["u3"] = "joined"
    /\ upc["u2"] = "sleep"
    /\ upc["u1"] = "start"

\* C7 (SpecDaemon), as claimed: when main has returned, the daemon has
\* reached its end and its "exiting" line is in the output.
C7_DaemonCompletes ==
    (prog = "daemon_threads" /\ status = "exited") =>
        /\ upc["u1"] = "done"
        /\ HasLine(out, <<"Daemon thread exiting ...", EOL>>)

\* C8 (SpecDaemon): the detach step leaves the handle not joinable with the
\* empty identity and the unit owned by no handle, changes neither the
\* unit's position nor timeout (nor any other storage, nor the output), and
\* is enabled whatever the unit is doing: it never waits.
C8_DetachReleases ==
    /\ [][MainDetach =>
            LET h == Ins.h
                u == handle[h]
            IN  /\ ~Joinable(handle', h)
                /\ handle'[h] = Empty
                /\ \A g \in DOMAIN handle' : handle'[g] # u
                /\ life'[u] = "detached"
                /\ upc' = upc
                /\ mem' = mem
                /\ loc' = loc
                /\ out' = out]_vars
    /\ [](AtOp("detach") => ENABLED MainDetach)

\* The handle was detached while the daemon is in the middle of its loop.
C8_Witness ==
    /\ prog = "daemon_threads"
    /\ pcMain = IdxOf(prog, IDetach("daemon")) + 1
    /\ life["u1"] = "detached"
    /\ handle["daemon"] = Empty
    /\ upc["u1"] = "running"
    /\ mem["timeout"] = 1

\* 05_passing_args and 06_return_vals together.
SpecPassing ==
    /\ InitOf("passing_args") \/ InitOf("return_vals")
    /\ [][NextArgs \/ NextRet]_vars

Doubled(v) == [i \in DOMAIN v |-> v[i] + v[i]]

\* What the caller finds in its alias-bound objects after the joins.
AliasVisible ==
    /\ (prog = "passing_args" /\ pcMain > IdxOf(prog, IJoin("t2"))) =>
            /\ mem["str_ref"] = Append(MemInit(prog)["str_ref"], " (Thread)")
            /\ mem["val"] = 2
    /\ (prog = "passing_args" /\ pcMain > IdxOf(prog, IJoin("t6"))) =>
            mem["vec_2"] = Doubled(MemInit(prog)["vec_2"])
    /\ (prog = "return_vals" /\ pcMain > IdxOf(prog, IJoin("t"))) =>
            mem["result"] \in 1..10

\* The caller's object v, passed in one of the given modes, is as initialized
\* once main is past the join of the unit it was passed to.
UnchangedAfterJoin(modes) ==
    \A j \in SpawnIdx(prog) :
        \A n \in DOMAIN MainCode(prog)[j].args :
            LET a == MainCode(prog)[j].args[n]
            IN  (a.mode \in modes /\ pcMain > j + 1) =>
                    mem[a.var] = MemInit(prog)[a.var]

\* C9 as claimed (SpecPassing): alias-bound objects show the unit's writes
\* after the join, and the original of every argument passed without an
\* alias marker is unchanged after the join.
C9_AsClaimed ==
    prog \in {"passing_args", "return_vals"} =>
        AliasVisible /\ UnchangedAfterJoin({"copy", "move"})

\* C9 as amended (SpecPassing): alias-bound objects show the unit's writes
\* after the join; the original of a copied argument is unchanged after the
\* join; the original of an argument passed with std::move (vec, to t_move)
\* is left empty from the spawn on.
C9_AliasVersusCopy ==
    prog \in {"passing_args", "return_vals"} =>
        /\ AliasVisible
        /\ UnchangedAfterJoin({"copy"})
        /\ \A j \in SpawnIdx(prog) :
             \A n \in DOMAIN MainCode(prog)[j].args :
                LET a == MainCode(prog)[j].args[n]
                IN  (a.mode = "move" /\ pcMain > j) => mem[a.var] = <<>>

\* 05_passing_args ran to its end: the aliases were written through, the
\* copied string is intact, the moved vector is empty.
C9_Witness ==
    /\ prog = "passing_args"
    /\ status = "exited"
    /\ mem["val"] = 2
    /\ mem["vec_2"] = <<2, 4, 6, 8, 10>>
    /\ mem["str_val"] = <<"Passing by value">>
    /\ mem["vec"] = <<>>
    /\ HasLine(out, <<"str: ", "Passing by value", ", val: ", "1", EOL>>)

\* C10 (Spec, every program): the process is never terminated, and whenever
\* main is about to destroy a std::thread handle that handle is not joinable.
C10_NoJoinableDestroyed ==
    /\ status # "terminated"
    /\ AtOp("destroy") => ~Joinable(handle, Ins.h)

\* main destroys the detached handle of 07_daemon_threads while the daemon
\* is still running.
C10_Witness ==
    /\ prog = "daemon_threads"
    /\ AtOp("destroy")
    /\ Ins.h = "daemon"
    /\ life["u1"] = "detached"
    /\ upc["u1"] = "sleep"

\* What an invalid operation leaves behind: the error state, and every
\* handle and every unit as it was.
OnlyFails ==
    /\ status' = "terminated"
    /\ handle' = handle
    /\ stop' = stop
    /\ upc' = upc
    /\ life' = life
    /\ loc' = loc
    /\ buf' = buf

PrintedIds ==
    {out[j + 1] : j \in {i \in 1..(Len(out) - 1) :
                            out[i] \in {"Thread ID: ", "T1 id: ", "T2 id: "}}}

WorkingLines == Cardinality({i \in DOMAIN out : out[i] = " is working."})

\* C12 (SpecMove): the move step changes the two handles and nothing else
\* (no unit's position or storage, no output); wherever in the unit's loop
\* the move falls, the unit writes MoveIters = 10 "is working" lines in all,
\* and every identity printed - by the unit in each of these lines, by main
\* for t1 before the move and for t2 after it - is one and the same
\* non-empty identity.
C12_MoveKeepsUnit ==
    /\ [][MainMove =>
            /\ UNCHANGED <<prog, status, stop, upc, life, out, buf, mem, loc>>
            /\ \A h \in DOMAIN handle \ {Ins.src, Ins.dst} : handle'[h] = handle[h]]_vars
    /\ [](prog = "move_threads" =>
            /\ Cardinality(PrintedIds) <= 1
            /\ Empty \notin PrintedIds
            /\ WorkingLines <= MoveIters
            /\ upc["u1"] = "done" => WorkingLines = MoveIters
            /\ status = "exited" =>
                    /\ WorkingLines = MoveIters
                    /\ HasLine(out, <<"T1 id: ", "u1", EOL>>)
                    /\ HasLine(out, <<"T2 id: ", "u1", EOL>>))

\* The program ran to its end with the move in the middle of the unit's
\* loop: four "is working" lines and the T1 line stand before the T2 line,
\* and the unit wrote the last line.
C12_Witness ==
    /\ prog = "move_threads"
    /\ status = "exited"
    /\ WorkingLines = MoveIters
    /\ Pos(out, <<"T2 id: ", "u1", EOL>>) = 4 * 4 + 3 + 1
    /\ SubSeq(out, Len(out) - 3, Len(out)) = <<"Thread ID: ", "u1", " is working.", EOL>>

\* The workers of 10_yield_thread inside the busy-work section: past the
\* constructor of the lock_guard, its destructor not yet run.
InBusyWork == {u \in UnitsOf(prog) : upc[u] \in {"busy", "unlock"}}

\* C13 (SpecYield): at most one worker is inside the busy-work section at
\* any time, and it is the one that holds mtx; a worker on the yielding
\* branch does not hold mtx, and its steps there (writing the "yielding"
\* line, yielding) neither take nor release it.
C13_MutualExclusion ==
    /\ [](prog = "yield_thread" =>
            /\ Cardinality(InBusyWork) <= 1
            /\ \A u \in UnitsOf(prog) :
                /\ u \in InBusyWork <=> mem["mtx"] = u
                /\ upc[u] \in {"yielding", "yield"} => mem["mtx"] # u)
    /\ [][\A u \in UnitsOf(prog) :
            (work_yielding(u) \/ work_yield(u)) =>
                /\ mem'["mtx"] = mem["mtx"]
                /\ mem'["mtx"] # u]_vars

\* Contention: t1's worker is in its busy-wait holding mtx while t2's
\* worker, which chose to work too, waits for the lock.
C13_Witness ==
    /\ prog = "yield_thread"
    /\ upc["u1"] = "busy"
    /\ mem["mtx"] = "u1"
    /\ upc["u2"] = "lock"

\* Worker u chose to work and waits for mtx, which worker v holds.
Blocked(u, v) == upc[u] = "lock" /\ v \in InBusyWork

\* v alone goes once round its loop while u waits: v releases mtx, decides
\* to work again, writes its line and takes mtx again, u still waiting.
Round(u, v) ==
    /\ work_unlock(v)
    /\ (ENABLED (/\ work_decide(v)
                 /\ upc'[v] = "working"
                 /\ (ENABLED (/\ work_working(v)
                              /\ (ENABLED (work_lock(v) /\ Blocked(u, v)'))'))'))'

\* C14 (FairYield): in every reachable state in which a worker u waits for
\* mtx while the other worker v holds it, u can take no step, and v alone
\* can finish its busy-wait, release mtx, decide to work again and take mtx
\* again, which leads to another such state.  Repeating this round from any
\* such state is an execution in which u waits at the lock forever while v
\* releases and takes mtx infinitely often; it is weakly fair to both
\* workers, because v keeps taking steps and u's only step is disabled
\* whenever v holds mtx.
C14_StarvationPossible ==
    prog = "yield_thread" =>
        \A u, v \in UnitsOf(prog) :
            (u # v /\ Blocked(u, v)) =>
                /\ ~ENABLED WorkStep(u)
                /\ upc[v] = "busy" => ENABLED (work_busy(v) /\ Blocked(u, v)')
                /\ upc[v] = "unlock" => ENABLED Round(u, v)

\* t1's worker waits for mtx while t2's worker is about to release it for
\* the second time in a row: the last two lines written are both t2's.
C14_Witness ==
    /\ prog = "yield_thread"
    /\ Blocked("u1", "u2")
    /\ upc["u2"] = "unlock"
    /\ Len(out) >= 6
    /\ SubSeq(out, Len(out) - 5, Len(out))
            = <<"t2", ": working", EOL, "t2", ": working", EOL>>

\* C15 (SpecYield): a worker that was started never reaches the end of
\* work; main's scope ends with the destruction of t2 and then of t1, and
\* main never gets past the destruction of t2: once it has requested the
\* stop, the join of t2 is never enabled.  So no unit is ever joined, t1's
\* destructor never starts, and main never returns.
C15_NeverTerminates ==
    prog = "yield_thread" =>
        /\ \A u \in UnitsOf(prog) : upc[u] # "done" /\ life[u] # "joined"
        /\ status = "running"
        /\ IdxOf(prog, IJDestroy("t2")) < IdxOf(prog, IJDestroy("t1"))
        /\ pcMain <= IdxOf(prog, IJDestroy("t2"))
        /\ ~stop["t1"]
        /\ (AtOp("jdestroy") /\ stop[Ins.h]) => ~ENABLED MainJDestroy
        /\ pcMain = IdxOf(prog, IJDestroy("t2")) =>
                Joinable(handle, "t1") /\ Joinable(handle, "t2")

\* main is inside the destructor of t2, blocked in the join, while t2's
\* worker is yielding and t1's worker holds mtx.
C15_Witness ==
    /\ prog = "yield_thread"
    /\ AtOp("jdestroy")
    /\ Ins.h = "t2"
    /\ stop["t2"]
    /\ upc["u2"] = "yield"
    /\ upc["u1"] = "busy"

\* Two threads are each about to access the same object, one of them at
\* least to write it.
Conflict(A, B) == \E a \in A, b \in B : a.var = b.var /\ (a.w \/ b.w)

\* C16 (Spec, every program), as claimed: at no moment is a running unit
\* about to write an object that main or another running unit is about to
\* read or write, or about to read one that they are about to write.  (No
\* access in the examples is made with a lock held.)
C16_NoUnsynchronizedAccess ==
    \A u \in UnitsOf(prog) :
        Running(u) =>
            /\ ~Conflict(UnitAccess(u), MainAccess)
            /\ \A v \in UnitsOf(prog) \ {u} :
                    Running(v) => ~Conflict(UnitAccess(u), UnitAccess(v))

\* Another unit than u that writes to standard output is running.
OtherWriter(u) ==
    \E v \in UnitsOf(prog) \ {u} : Running(v) /\ WritesOut(prog, UnitFn(prog, v))

\* C17 (Spec, every program), as claimed: a write on plain std::cout, by a
\* unit or by main, never comes up while another thread that writes to
\* standard output is running; every write that can meet another writer is
\* a sink statement.
C17_AlwaysThroughSink ==
    /\ \A u \in UnitsOf(prog) :
            (Running(u) /\ PlainNext(u)) => ~(MainWritesOut \/ OtherWriter(u))
    /\ AtOp("cout") =>
            \A v \in UnitsOf(prog) : ~(Running(v) /\ WritesOut(prog, UnitFn(prog, v)))

\* C18 (Spec, every program), as claimed: every sink statement, that is
\* every acquisition of the sink, delivers a line up to and including its
\* terminator: after a step that writes to the destination through the
\* sink, the destination ends with a line terminator.
C18_OneAcquisitionPerLine ==
    [][(out' # out /\ ~PlainStep) => out'[Len(out')] = EOL]_vars

\* ------------------------------------------------------ object lifetimes

\* The handle declared next after main's local object v.  At the end of
\* main the locals are destroyed in reverse order of declaration, so v is
\* destroyed right after that handle.
NextHandle(p, v) ==
    CASE p = "thread_creation" /\ v = "obj" -> "t5"
      [] p = "passing_args" /\ v = "str_val" -> "t1"
      [] p = "passing_args" /\ v \in {"str_ref", "val"} -> "t2"
      [] p = "passing_args" /\ v = "vec" -> "t3"
      [] p = "passing_args" /\ v = "hello" -> "t"
      [] p = "passing_args" /\ v = "vec_2" -> "t6"
      [] OTHER -> Empty

\* The last instruction of main at which object v still exists: the
\* destruction of the handle declared after it.  An object at namespace
\* scope (result, timeout, mtx) outlives main.
ScopeEnd(p, v) ==
    IF NextHandle(p, v) = Empty THEN Len(MainCode(p)) + 1
    ELSE IdxOf(p, IDestroy(NextHandle(p, v)))

Alive(v) == pcMain <= ScopeEnd(prog, v)

\* The caller's objects that unit u is bound to by alias.
Referents(u) == {loc[u].args[n].var : n \in {i \in DOMAIN loc[u].args : loc[u].args[i].ref}}

\* 01_thread_creation, 05_passing_args and 06_return_vals together.
SpecAlias ==
    /\ InitOf("thread_creation") \/ InitOf("passing_args") \/ InitOf("return_vals")
    /\ [][NextCreate \/ NextArgs \/ NextRet]_vars

\* Every object that main's code hands to a unit by alias.
AliasObjects(p) ==
    UNION {{MainCode(p)[j].args[n].var :
                n \in {i \in DOMAIN MainCode(p)[j].args : MainCode(p)[j].args[i].mode = "ref"}} :
            j \in SpawnIdx(p)}

\* C19 (SpecAlias): the objects handed over by alias are obj in 01, str_ref,
\* val, vec, hello and vec_2 in 05 and result in 06; whenever a unit can
\* run, every object it is bound to by alias is alive; when the scope of
\* such an object has ended, the unit was joined; and in 05 and 06 at most
\* one unit is spawned and not yet joined at any time.
C19_ReferentsOutliveUnits ==
    prog \in {"thread_creation", "passing_args", "return_vals"} =>
        /\ AliasObjects("thread_creation") = {"obj"}
        /\ AliasObjects("passing_args") = {"str_ref", "val", "vec", "hello", "vec_2"}
        /\ AliasObjects("return_vals") = {"result"}
        /\ \A u \in UnitsOf(prog) :
            \A v \in Referents(u) :
                /\ Running(u) => Alive(v)
                /\ ~Alive(v) => life[u] = "joined"
        /\ prog # "thread_creation" =>
                Cardinality({u \in UnitsOf(prog) : life[u] = "joinable"}) <= 1

\* modifyVector is in the middle of its loop over the caller's vec_2, which
\* is alive, while main waits in t6.join().
C19_Witness ==
    /\ prog = "passing_args"
    /\ AtOp("join")
    /\ Ins.h = "t6"
    /\ Running("u6")
    /\ Referents("u6") = {"vec_2"}
    /\ Alive("vec_2")
    /\ mem["vec_2"] = <<2, 4, 6, 4, 5>>

\* The identities 04_identify_thread has printed so far, in order: the
\* tokens of its output that are neither a literal nor a line terminator.
RECURSIVE IdsIn(_)
IdsIn(o) ==
    IF o = <<>> THEN <<>>
    ELSE IF Head(o) \in {"Inside Thread[t]: ", "Thread[t] ID: ", "Thread[main] ID: ", EOL}
         THEN IdsIn(Tail(o))
         ELSE <<Head(o)>> \o IdsIn(Tail(o))

\* C20 (SpecIdent): from the construction of t until main is past t.join(),
\* t's identity is not the empty one, is not main's, and is the identity of
\* the unit that runs func; every identity printed up to then is main's own
\* or equal to t's, and of the three identities printed in all, two (one
\* read from t by main, one observed by the unit for itself) are that same
\* identity and one is main's; past the join t's identity is the empty one.
C20_IdentityMatchesUnit ==
    prog = "identify_thread" =>
        LET j == IdxOf(prog, IJoin("t"))
            ids == IdsIn(out)
        IN  /\ (pcMain > IdxOf(prog, ISpawn("t", "u1", "func", <<>>)) /\ pcMain <= j) =>
                    /\ handle["t"] # Empty
                    /\ handle["t"] # MainId
                    /\ handle["t"] = UnitOfHandle(prog, "t")
                    /\ \A i \in DOMAIN ids : ids[i] \in {MainId, handle["t"]}
            /\ pcMain > j =>
                    /\ handle["t"] = Empty
                    /\ Len(ids) = 3
                    /\ Cardinality({i \in DOMAIN ids : ids[i] = MainId}) = 1
                    /\ Cardinality({i \in DOMAIN ids : ids[i] = UnitOfHandle(prog, "t")}) = 2

\* main waits in t.join(); the unit has just printed its own identity, after
\* main printed t's and its own.
C20_Witness ==
    /\ prog = "identify_thread"
    /\ AtOp("join")
    /\ Ins.h = "t"
    /\ upc["u1"] = "put"
    /\ loc["u1"].k = 2
    /\ IdsIn(out) = <<handle["t"], MainId, "u1">>

\* The steps of worker u outside the busy-work section: the work/yield
\* decision, the writing of the "working" or "yielding" line, the yield.
OutsideBusyWork(u) ==
    work_decide(u) \/ work_working(u) \/ work_yielding(u) \/ work_yield(u)

\* C21 (FairYield): a worker holds mtx only inside the busy-work section;
\* its decision, its writing of the "working" or "yielding" line and its
\* yield are taken without mtx and leave mtx as it is; mtx is released only
\* by its holder, at the end of that loop iteration, which brings the
\* holder to its next decision; a worker about to write its line can do so
\* whoever holds mtx; and a worker that holds mtx eventually has released it
\* and stands before its next decision.
C21_LockReleased ==
    /\ [](prog = "yield_thread" =>
            \A u \in UnitsOf(prog) :
                /\ mem["mtx"] = u => upc[u] \in {"busy", "unlock"}
                /\ upc[u] = "working" => ENABLED work_working(u)
                /\ upc[u] = "yielding" => ENABLED work_yielding(u))
    /\ [][\A u \in UnitsOf(prog) :
            /\ OutsideBusyWork(u) =>
                    mem["mtx"] # u /\ mem'["mtx"] = mem["mtx"]
            /\ (mem["mtx"] = u /\ mem'["mtx"] # u) =>
                    /\ work_unlock(u)
                    /\ mem'["mtx"] = Free
                    /\ upc'[u] = "start"
            /\ (mem["mtx"] = u /\ mem'["mtx"] = u) =>
                    (upc'[u] = upc[u] \/ work_busy(u))]_vars
    /\ \A u \in UnitsOf("yield_thread") :
            (prog = "yield_thread" /\ mem["mtx"] = u) ~> (mem["mtx"] # u /\ upc[u] = "start")

\* t1's worker is about to write its "working" line, and can, while t2's
\* worker holds mtx in its busy-wait, having released and taken it before.
C21_Witness ==
    /\ prog = "yield_thread"
    /\ mem["mtx"] = "u2"
    /\ upc["u2"] = "busy"
    /\ upc["u1"] = "working"
    /\ ENABLED work_working("u1")
    /\ Len(out) >= 3
    /\ SubSeq(out, Len(out) - 2, Len(out)) = <<"t2", ": working", EOL>>

DaemonStarting == <<"Daemon thread starting ...">>
DaemonRunning == <<"Daemon thread running ...">>
DaemonExiting == <<"Daemon thread exiting ...">>

IsDaemonLine(l) == l \in {DaemonStarting, DaemonRunning, DaemonExiting}

\* The daemon's lines in the destination, in the order they were written.
DaemonLines == SelectSeq(LinesOf(out), IsDaemonLine)

\* What a daemon that runs to its end writes: "starting", one "running"
\* line for each unit of the initial timeout, "exiting".
DaemonScript ==
    <<DaemonStarting>> \o [i \in 1..TimeoutInit |-> DaemonRunning] \o <<DaemonExiting>>

\* C22 (SpecDaemon): timeout stays within -1..3; what the daemon has written
\* so far is always a beginning of: "starting", 3 times "running",
\* "exiting"; each test of the loop condition takes one from timeout, and
\* the number of "running" lines written follows it; a daemon that has
\* reached its end has written all of it and left timeout at -1.
C22_DaemonLoopCount ==
    prog = "daemon_threads" =>
        LET n == Len(DaemonLines)
            runs == Cardinality({i \in 1..n : DaemonLines[i] = DaemonRunning})
        IN  /\ TimeoutInit = 3
            /\ mem["timeout"] \in -1..TimeoutInit
            /\ n <= Len(DaemonScript)
            /\ DaemonLines = SubSeq(DaemonScript, 1, n)
            /\ upc["u1"] \in {"test", "sleep"} => runs = TimeoutInit - mem["timeout"]
            /\ upc["u1"] = "running" => runs = TimeoutInit - mem["timeout"] - 1
            /\ upc["u1"] \in {"unborn", "start"} => mem["timeout"] = TimeoutInit
            /\ upc["u1"] \in {"exiting", "done"} =>
                    runs = TimeoutInit /\ mem["timeout"] = -1
            /\ upc["u1"] = "done" => DaemonLines = DaemonScript

\* The daemon ran to its end before main returned: five daemon lines, three
\* of them "running", then "exiting", and timeout at -1.
C22_Witness ==
    /\ prog = "daemon_threads"
    /\ status = "running"
    /\ upc["u1"] = "done"
    /\ mem["timeout"] = -1
    /\ Len(DaemonLines) = 5
    /\ DaemonLines[2] = DaemonRunning
    /\ DaemonLines[3] = DaemonRunning
    /\ DaemonLines[4] = DaemonRunning
    /\ DaemonLines[5] = DaemonExiting

====
